---------------------------- MODULE Spec2Model ----------------------------
(***************************************************************************)
(* A model of mc_plugin_translator.py: the masking protocol (mask_text,    *)
(* unmask_text), the translation gateway (translate_one), the per-scalar   *)
(* pipeline (translate_string), the tree walk (translate_value), the       *)
(* repair pass (post_fix_translated_content), the auditor                  *)
(* (final_sanity_check) and the phases of main that chain them.            *)
(*                                                                         *)
(* Python str values are TLA+ strings; a character is a string of length 1.*)
(* The text is ASCII, with one stand-in: "^" is U+2019, the apostrophe     *)
(* post_fix_translated_content writes.                                     *)
(***************************************************************************)
EXTENDS Integers, Sequences, FiniteSets, TLC

VARIABLES
    \* ---- mask_text / unmask_text called on their own
    text,           \* the argument S
    masked,         \* mask_text's return value
    mapping,        \* the dict mask_text fills: a sequence of <<token, original>>
    unmasked,       \* unmask_text's return value
    mpc,            \* "start" | "masked" | "unmasked"
    \* ---- translate_one
    engines,        \* the list built at lines 229-233 from what could be imported
    engineIdx,      \* position of the for loop of line 239 (1-based)
    attempt,        \* line 240
    backoff,        \* line 241, in eighths of a second
    last_exc,       \* line 238
    worker,         \* the single-use worker: "none" | "running" | "returned" | "raised"
    timedOut,       \* fut.result(timeout) gave up on the call in flight
    gpc,            \* "idle" | "entry" | "loop" | "await" | "shutdown" | "sleep" |
                    \* "returned" | "raised"
    gresult,        \* translate_one's outcome: a string, or the exception raised
    calls,          \* history: one record per engine attempt
    \* ---- main: translate_value, post_fix_translated_content, final_sanity_check
    data,           \* the parsed document
    leaves,         \* paths of the string scalars of data, in traversal order
    cursor,         \* index in leaves of the scalar translate_value is at
    out,            \* translate_string's return value per finished scalar
    s,              \* translate_string's argument
    smasked,        \* masked (line 268)
    smapping,       \* mapping (line 267)
    sattempt,       \* the loop variable of line 276
    last_result,    \* line 275
    gatewayCalls,   \* per scalar: the masked texts handed to translate_one
    outcome,        \* per finished scalar: "Translated" | "Skipped"
    PROGRESS,       \* line 259
    translated,     \* main's variable of the same name
    problems,       \* final_sanity_check's list
    ok,             \* final_sanity_check's return value
    exitCode,       \* -1 while running, else the process exit status
    pc              \* position in main / translate_string

gvars == <<engines, engineIdx, attempt, backoff, last_exc, worker,
           timedOut, gpc, gresult, calls>>
mvars == <<text, masked, mapping, unmasked, mpc>>
rvars == <<data, leaves, cursor, out, s, smasked, smapping,
           sattempt, last_result, gatewayCalls, outcome, PROGRESS,
           translated, problems, ok, exitCode, pc>>
vars == <<mvars, gvars, rvars>>

-----------------------------------------------------------------------------
(* Bounds of the model *)

\* an input string is at most this many lexemes long
MaxPieces == 3
\* a document has at most this many nodes
MaxNodes == 3

-----------------------------------------------------------------------------
(* Configuration, lines 41-45 *)

MAX_RETRIES == 3

\* backoff = 1.0 (line 241), counted in eighths of a second so that the
\* products by RETRY_BACKOFF stay integers over MAX_RETRIES attempts
InitialBackoff == 8

\* RETRY_BACKOFF = 1.5 as the fraction 3/2
RetryBackoffNum == 3
RetryBackoffDen == 2

-----------------------------------------------------------------------------
(* Characters and str methods *)

UpperChars == "ABCDEFGHIJKLMNOPQRSTUVWXYZ"
LowerChars == "abcdefghijklmnopqrstuvwxyz"
DigitChars == "0123456789"

At(str, i) == SubSeq(str, i, i)

\* str[i-1:j], which stops at the end of str
Slice(str, i, j) == SubSeq(str, i, IF j > Len(str) THEN Len(str) ELSE j)

CharsOf(str) == {At(str, i) : i \in 1..Len(str)}

UpperSet == CharsOf(UpperChars)

\* \w of the re module, and [A-Za-z0-9_], over ASCII
WordSet == UpperSet \cup CharsOf(LowerChars) \cup CharsOf(DigitChars) \cup {"_"}

\* \s of the re module and the separators of str.split(), over this alphabet
SpaceSet == {" "}

LowerOf == [c \in UpperSet |->
              At(LowerChars, CHOOSE i \in 1..Len(UpperChars) : At(UpperChars, i) = c)]

RECURSIVE Lower(_)
\* str.lower()
Lower(str) ==
    IF str = "" THEN ""
    ELSE LET c == Head(str)
         IN (IF c \in UpperSet THEN LowerOf[c] ELSE c) \o Lower(Tail(str))

RECURSIVE Replace(_, _, _)
\* str.replace(old, new) for a non-empty old: leftmost, non-overlapping
Replace(str, old, new) ==
    IF Len(str) < Len(old) THEN str
    ELSE IF SubSeq(str, 1, Len(old)) = old
         THEN new \o Replace(SubSeq(str, Len(old) + 1, Len(str)), old, new)
         ELSE Head(str) \o Replace(Tail(str), old, new)

\* old in str
Contains(str, old) ==
    \E i \in 1..(Len(str) - Len(old) + 1) : SubSeq(str, i, i + Len(old) - 1) = old

\* the first index from i on whose character is in stop, or Len(str) + 1
FirstIn(str, i, stop) ==
    LET C == {j \in i..Len(str) : At(str, j) \in stop}
    IN IF C = {} THEN Len(str) + 1 ELSE CHOOSE j \in C : \A k \in C : j <= k

\* the first index from i on whose character is not in run, or Len(str) + 1
FirstNotIn(str, i, run) ==
    LET C == {j \in i..Len(str) : At(str, j) \notin run}
    IN IF C = {} THEN Len(str) + 1 ELSE CHOOSE j \in C : \A k \in C : j <= k

-----------------------------------------------------------------------------
(* The vocabulary and the two patterns, lines 47-61 *)

MINECRAFT_TERMS ==
    {"Land", "land", "Chunk", "Chunks", "chunk", "chunks", "Biome", "biomes",
     "Nether", "End", "Overworld", "PvP", "PVP", "Cooldown", "Cooldowns",
     "Claim", "Claims", "claim", "claims", "Unclaim", "unclaim", "Spawn",
     "Mob", "Mobs", "XP", "Health", "Mana", "Region", "Block", "Blocks",
     "Item", "Items", "Inventory", "Server", "Player", "Players", "World",
     "Worlds"}

LOWER_TERMS == {Lower(t) : t \in MINECRAFT_TERMS}

\* PLACEHOLDER_RE at pos: the index of the last character of the match that
\* starts at pos, or 0 when none does.  The three alternatives start with
\* different characters; each greedy class runs to the first character it
\* excludes, which is where the closing character must be.
PlaceholderEnd(str, pos) ==
    LET c == At(str, pos)
    IN IF c = "{"
       THEN LET j == FirstIn(str, pos + 1, {"}"})
            IN IF j <= Len(str) /\ j > pos + 1 THEN j ELSE 0
       ELSE IF c = "%"
       THEN LET j == FirstIn(str, pos + 1, {"%"} \cup SpaceSet)
            IN IF j <= Len(str) /\ j > pos + 1 /\ At(str, j) = "%" THEN j ELSE 0
       ELSE IF c = "$"
       THEN LET j == FirstNotIn(str, pos + 1, WordSet)
            IN IF j > pos + 1 THEN j - 1 ELSE 0
       ELSE 0

\* \b between index i - 1 and index i
WordBoundary(str, i) ==
    LET before == i > 1 /\ At(str, i - 1) \in WordSet
        after  == i <= Len(str) /\ At(str, i) \in WordSet
    IN before # after

\* TERMS_PATTERN at pos: the index of the last character of the match that
\* starts at pos, or 0.  The alternation lists the longer terms first and
\* IGNORECASE compares case-insensitively, so the match is the longest term
\* that fits between two word boundaries.
TermEnd(str, pos) ==
    LET fits == {n \in {Len(t) : t \in MINECRAFT_TERMS} :
                    /\ pos + n - 1 <= Len(str)
                    /\ Lower(SubSeq(str, pos, pos + n - 1)) \in LOWER_TERMS
                    /\ WordBoundary(str, pos + n)}
    IN IF ~WordBoundary(str, pos) \/ fits = {} THEN 0
       ELSE pos - 1 + CHOOSE n \in fits : \A k \in fits : k <= n

-----------------------------------------------------------------------------
(* Masking and unmasking, lines 171-199 *)

RECURSIVE DictSet(_, _, _)
\* mapping[key] = value on an insertion-ordered dict
DictSet(m, key, value) ==
    IF m = <<>> THEN <<<<key, value>>>>
    ELSE IF Head(m)[1] = key THEN <<<<key, value>>>> \o Tail(m)
    ELSE <<Head(m)>> \o DictSet(Tail(m), key, value)

PHToken(token_index) == "__PH" \o ToString(token_index) \o "__"

MTToken(token_index) == "__MT" \o ToString(token_index) \o "__"

RECURSIVE SubPlaceholders(_, _, _, _)
\* PLACEHOLDER_RE.sub(repl_ph, text) from pos on (lines 174-181)
SubPlaceholders(str, pos, m, token_index) ==
    IF pos > Len(str) THEN [text |-> "", mapping |-> m, token_index |-> token_index]
    ELSE LET e == PlaceholderEnd(str, pos)
         IN IF e = 0
            THEN LET r == SubPlaceholders(str, pos + 1, m, token_index)
                 IN [r EXCEPT !.text = At(str, pos) \o r.text]
            ELSE LET token == PHToken(token_index)
                     r == SubPlaceholders(str, e + 1,
                              DictSet(m, token, SubSeq(str, pos, e)), token_index + 1)
                 IN [r EXCEPT !.text = token \o r.text]

RECURSIVE SubTerms(_, _, _, _)
\* TERMS_PATTERN.sub(repl_term, text) from pos on (lines 183-193)
SubTerms(str, pos, m, token_index) ==
    IF pos > Len(str) THEN [text |-> "", mapping |-> m, token_index |-> token_index]
    ELSE LET e == TermEnd(str, pos)
         IN IF e = 0
            THEN LET r == SubTerms(str, pos + 1, m, token_index)
                 IN [r EXCEPT !.text = At(str, pos) \o r.text]
            ELSE LET original == SubSeq(str, pos, e)
                 IN IF Lower(original) \in LOWER_TERMS
                    THEN LET token == MTToken(token_index)
                             r == SubTerms(str, e + 1,
                                      DictSet(m, token, original), token_index + 1)
                         IN [r EXCEPT !.text = token \o r.text]
                    ELSE LET r == SubTerms(str, e + 1, m, token_index)
                         IN [r EXCEPT !.text = original \o r.text]

\* mask_text(text, mapping): the masked text and the mapping as left behind
mask_text(str, m) ==
    LET ph == SubPlaceholders(str, 1, m, Len(m))
        mt == SubTerms(ph.text, 1, ph.mapping, ph.token_index)
    IN [text |-> mt.text, mapping |-> mt.mapping]

RECURSIVE unmask_text(_, _)
\* unmask_text(text, mapping): one str.replace per entry, in insertion order
unmask_text(str, m) ==
    IF m = <<>> THEN str
    ELSE unmask_text(Replace(str, Head(m)[1], Head(m)[2]), Tail(m))

-----------------------------------------------------------------------------
(* Input strings *)

\* the lexemes inputs are built from: each placeholder form, terms in
\* registered and unregistered casings, plain words, a separator, and text
\* that has the shape of a masking token
Lexemes ==
    {"{x}", "{player}", "%w%", "$v", "Land", "land", "PvP", "nether",
     "hi", " ", "__PH0__", "{__PH1__}"}

RECURSIVE Concats(_)
\* the strings made of exactly n lexemes
Concats(n) ==
    IF n = 0 THEN {""}
    ELSE {a \o b : a \in Lexemes, b \in Concats(n - 1)}

InputStrings == UNION {Concats(n) : n \in 0..MaxPieces}

-----------------------------------------------------------------------------
(* The variables a specification does not use stay at these values *)

MaskIdle ==
    /\ text = "" /\ masked = "" /\ mapping = <<>> /\ unmasked = ""
    /\ mpc = "idle"

GatewayIdle ==
    /\ engineIdx = 0 /\ attempt = 0 /\ backoff = 0 /\ last_exc = "None"
    /\ worker = "none" /\ timedOut = FALSE /\ gpc = "idle"
    /\ gresult = "None" /\ calls = <<>>

RunIdle ==
    /\ data = "None" /\ leaves = <<>> /\ cursor = 0 /\ out = <<>>
    /\ s = "" /\ smasked = "" /\ smapping = <<>> /\ sattempt = 0
    /\ last_result = "" /\ gatewayCalls = <<>> /\ outcome = <<>>
    /\ PROGRESS = [translated |-> 0, skipped |-> 0]
    /\ translated = "None" /\ problems = <<>> /\ ok = TRUE
    /\ exitCode = -1 /\ pc = "idle"

\* the engine lists lines 229-233 can build: each import succeeded or not
EngineLists ==
    {<<>>, <<"googletrans">>, <<"deep-translator">>,
     <<"googletrans", "deep-translator">>}

-----------------------------------------------------------------------------
(* mask_text then unmask_text, on a fresh mapping *)

InitMask ==
    /\ text \in InputStrings
    /\ masked = "" /\ mapping = <<>> /\ unmasked = ""
    /\ mpc = "start"
    /\ engines = <<>> /\ GatewayIdle /\ RunIdle

MaskText ==
    /\ mpc = "start"
    /\ LET r == mask_text(text, <<>>)
       IN /\ masked' = r.text
          /\ mapping' = r.mapping
    /\ mpc' = "masked"
    /\ UNCHANGED <<text, unmasked, gvars, rvars>>

UnmaskText ==
    /\ mpc = "masked"
    /\ unmasked' = unmask_text(masked, mapping)
    /\ mpc' = "unmasked"
    /\ UNCHANGED <<text, masked, mapping, gvars, rvars>>

NextMask == MaskText \/ UnmaskText

SpecMask == InitMask /\ [][NextMask]_vars

-----------------------------------------------------------------------------
(* translate_one, lines 224-254.  One engine attempt is: submit the call to *)
(* a single-use worker, wait for its result at most timeout seconds, leave  *)
(* the with block (ThreadPoolExecutor.__exit__ is shutdown(wait=True), which *)
(* joins the worker), and on an exception sleep and retry.  The engine call *)
(* ends when the engine decides: it may return, raise, or never end.        *)

InitGateway ==
    /\ engines \in EngineLists
    /\ engineIdx = 0 /\ attempt = 0 /\ backoff = 0 /\ last_exc = "None"
    /\ worker = "none" /\ timedOut = FALSE /\ gpc = "entry"
    /\ gresult = "None" /\ calls = <<>>
    /\ MaskIdle /\ RunIdle

\* the exception an attempt left in e
Exc(type) == [type |-> type, engine |-> engines[engineIdx], attempt |-> attempt]

\* a loop test that is off by one
RetryLoopContinuesInclusive(n) == n <= MAX_RETRIES

\* while attempt < MAX_RETRIES (line 242)
RetryLoopContinues(n) == n < MAX_RETRIES

\* backoff *= RETRY_BACKOFF (line 252)
NextBackoff(b) == (b * RetryBackoffNum) \div RetryBackoffDen

\* lines 235-236
NoEngine ==
    /\ gpc = "entry" /\ engines = <<>>
    /\ gresult' = [type |-> "RuntimeError", engine |-> "None", attempt |-> 0]
    /\ gpc' = "raised"
    /\ UNCHANGED <<engines, engineIdx, attempt, backoff, last_exc, worker,
                   timedOut, calls, mvars, rvars>>

\* lines 238-241: the first engine of the list
FirstEngine ==
    /\ gpc = "entry" /\ engines # <<>>
    /\ last_exc' = "None"
    /\ engineIdx' = 1 /\ attempt' = 0 /\ backoff' = InitialBackoff
    /\ gpc' = "loop"
    /\ UNCHANGED <<engines, worker, timedOut, gresult, calls, mvars, rvars>>

\* lines 242-246: attempt += 1, ex.submit(fn, masked_text, dest)
Submit ==
    /\ gpc = "loop" /\ RetryLoopContinues(attempt)
    /\ attempt' = attempt + 1
    /\ worker' = "running" /\ timedOut' = FALSE
    /\ gpc' = "await"
    /\ UNCHANGED <<engines, engineIdx, backoff, last_exc, gresult, calls,
                   mvars, rvars>>

\* the engine call returns its text, in the worker
EngineReturns ==
    /\ worker = "running"
    /\ worker' = "returned"
    /\ UNCHANGED <<engines, engineIdx, attempt, backoff, last_exc, timedOut,
                   gpc, gresult, calls, mvars, rvars>>

\* the engine call raises, in the worker
EngineRaises ==
    /\ worker = "running"
    /\ worker' = "raised"
    /\ UNCHANGED <<engines, engineIdx, attempt, backoff, last_exc, timedOut,
                   gpc, gresult, calls, mvars, rvars>>

\* line 247: fut.result returns within the timeout; the with block is left
\* with the worker finished, and translate_one returns
ResultReturned ==
    /\ gpc = "await" /\ worker = "returned"
    /\ gresult' = [text |-> "reply", engine |-> engines[engineIdx], attempt |-> attempt]
    /\ calls' = Append(calls, [engine |-> engines[engineIdx], attempt |-> attempt,
                               outcome |-> "returned", slept |-> 0])
    /\ worker' = "none"
    /\ gpc' = "returned"
    /\ UNCHANGED <<engines, engineIdx, attempt, backoff, last_exc, timedOut,
                   mvars, rvars>>

\* line 247: fut.result re-raises the engine's exception; lines 248-249
ResultRaised ==
    /\ gpc = "await" /\ worker = "raised"
    /\ last_exc' = Exc("EngineError")
    /\ worker' = "none"
    /\ gpc' = "sleep"
    /\ UNCHANGED <<engines, engineIdx, attempt, backoff, timedOut, gresult,
                   calls, mvars, rvars>>

\* line 247: the timeout elapses with the call still running; fut.result
\* raises TimeoutError inside the with block, whose exit joins the worker
TimeoutElapses ==
    /\ gpc = "await" /\ worker = "running"
    /\ timedOut' = TRUE
    /\ gpc' = "shutdown"
    /\ UNCHANGED <<engines, engineIdx, attempt, backoff, last_exc, worker,
                   gresult, calls, mvars, rvars>>

\* line 245: shutdown(wait=True) returns once the worker has finished; only
\* then does TimeoutError reach lines 248-249
ShutdownJoined ==
    /\ gpc = "shutdown" /\ worker \in {"returned", "raised"}
    /\ last_exc' = Exc("TimeoutError")
    /\ worker' = "none"
    /\ gpc' = "sleep"
    /\ UNCHANGED <<engines, engineIdx, attempt, backoff, timedOut, gresult,
                   calls, mvars, rvars>>

\* lines 250-252: time.sleep(backoff); backoff *= RETRY_BACKOFF
Sleep ==
    /\ gpc = "sleep"
    /\ calls' = Append(calls, [engine |-> engines[engineIdx], attempt |-> attempt,
                               outcome |-> last_exc.type, slept |-> backoff])
    /\ backoff' = NextBackoff(backoff)
    /\ timedOut' = FALSE
    /\ gpc' = "loop"
    /\ UNCHANGED <<engines, engineIdx, attempt, last_exc, worker, gresult,
                   mvars, rvars>>

\* lines 253, 239-241: the while loop ends, the for loop takes the next engine
NextEngine ==
    /\ gpc = "loop" /\ ~RetryLoopContinues(attempt)
    /\ engineIdx < Len(engines)
    /\ engineIdx' = engineIdx + 1 /\ attempt' = 0 /\ backoff' = InitialBackoff
    /\ UNCHANGED <<engines, last_exc, worker, timedOut, gpc, gresult, calls,
                   mvars, rvars>>

\* lines 253-254: the for loop ends; raise last_exc
RaiseLast ==
    /\ gpc = "loop" /\ ~RetryLoopContinues(attempt)
    /\ engineIdx = Len(engines)
    /\ gresult' = last_exc
    /\ gpc' = "raised"
    /\ UNCHANGED <<engines, engineIdx, attempt, backoff, last_exc, worker,
                   timedOut, calls, mvars, rvars>>

NextGateway ==
    \/ NoEngine \/ FirstEngine \/ Submit \/ EngineReturns \/ EngineRaises
    \/ ResultReturned \/ ResultRaised \/ TimeoutElapses \/ ShutdownJoined
    \/ Sleep \/ NextEngine \/ RaiseLast

SpecGateway == InitGateway /\ [][NextGateway]_vars

-----------------------------------------------------------------------------
(* Documents: what yaml.safe_load returns *)

Str(v) == [kind |-> "str", sval |-> v]
Num(n) == [kind |-> "num", nval |-> n]
Bool(b) == [kind |-> "bool", bval |-> b]
Null == [kind |-> "null"]
\* a dict keeps its insertion order: keys[i] maps to items[i]
Map(ks, items) == [kind |-> "map", keys |-> ks, items |-> items]
List(items) == [kind |-> "seq", items |-> items]

IsContainer(node) == node.kind \in {"map", "seq"}

Keys == {"a", "b"}

\* the key lists of a dict of m entries
KeySeqs(m) == {ks \in [1..m -> Keys] : \A i, j \in 1..m : ks[i] = ks[j] => i = j}

RECURSIVE TreesOfSize(_, _), ForestsOfSize(_, _)
\* the documents of exactly n nodes whose scalars are in scalars
TreesOfSize(scalars, n) ==
    IF n = 1 THEN scalars \cup {List(<<>>), Map(<<>>, <<>>)}
    ELSE UNION {{List(f)} \cup {Map(ks, f) : ks \in KeySeqs(Len(f))} :
                   f \in ForestsOfSize(scalars, n - 1)}

\* the non-empty lists of documents of n nodes in all
ForestsOfSize(scalars, n) ==
    UNION {{<<t>> \o f : t \in TreesOfSize(scalars, k),
                         f \in IF k = n THEN {<<>>} ELSE ForestsOfSize(scalars, n - k)} :
              k \in 1..n}

DocsOver(scalars) == UNION {TreesOfSize(scalars, n) : n \in 1..MaxNodes}

\* a path is the list of child positions from the root
RECURSIVE NodeAt(_, _)
NodeAt(node, path) ==
    IF path = <<>> THEN node ELSE NodeAt(node.items[Head(path)], Tail(path))

RECURSIVE PathsBelow(_, _, _)
\* the paths of the string scalars under children i.. of a container, in the
\* order translate_value reaches them
RECURSIVE StringLeafPaths(_, _)
StringLeafPaths(node, path) ==
    IF node.kind = "str" THEN <<path>>
    ELSE IF IsContainer(node) THEN PathsBelow(node, path, 1)
    ELSE <<>>

PathsBelow(node, path, i) ==
    IF i > Len(node.items) THEN <<>>
    ELSE StringLeafPaths(node.items[i], Append(path, i)) \o PathsBelow(node, path, i + 1)

-----------------------------------------------------------------------------
(* translate_string's tests, lines 263 and 271 *)

\* not s.strip()
IsBlank(str) == \A i \in 1..Len(str) : At(str, i) \in SpaceSet

DigitSet == CharsOf(DigitChars)

\* (?:__PH\d+__)|(?:__MT\d+__) at pos: the index of its last character, or 0
TokenEnd(str, pos) ==
    IF Slice(str, pos, pos + 3) \in {"__PH", "__MT"}
    THEN LET j == FirstNotIn(str, pos + 4, DigitSet)
         IN IF j > pos + 4 /\ Slice(str, j, j + 1) = "__" THEN j + 1 ELSE 0
    ELSE 0

RECURSIVE TokensFrom(_, _)
\* the text from pos on is a run of zero or more tokens
TokensFrom(str, pos) ==
    IF pos > Len(str) THEN TRUE
    ELSE LET e == TokenEnd(str, pos)
         IN e # 0 /\ TokensFrom(str, e + 1)

\* re.fullmatch(r"(?:(?:__PH\d+__)|(?:__MT\d+__))+", masked or "")
FullMatchTokens(str) == str # "" /\ TokensFrom(str, 1)

-----------------------------------------------------------------------------
(* post_fix_translated_content, lines 303-320 *)

\* U+2019
Apostrophe == "^"

RECURSIVE Split(_)
\* str.split()
Split(str) ==
    IF str = "" THEN <<>>
    ELSE IF Head(str) \in SpaceSet THEN Split(Tail(str))
    ELSE LET e == FirstIn(str, 1, SpaceSet)
         IN <<SubSeq(str, 1, e - 1)>> \o Split(SubSeq(str, e, Len(str)))

RECURSIVE Join(_)
\* " ".join(words)
Join(words) ==
    IF words = <<>> THEN ""
    ELSE IF Len(words) = 1 THEN words[1]
    ELSE words[1] \o " " \o Join(Tail(words))

RECURSIVE StripNonWord(_)
\* re.sub(r"[^\w]", "", w)
StripNonWord(w) ==
    IF w = "" THEN ""
    ELSE (IF Head(w) \in WordSet THEN Head(w) ELSE "") \o StripNonWord(Tail(w))

RECURSIVE SubWholeWord(_, _, _, _)
\* re.sub(r"\b" + re.escape(bare) + r"\b", orig, w) from pos on
SubWholeWord(w, pos, bare, orig) ==
    IF pos > Len(w) THEN ""
    ELSE IF /\ Slice(w, pos, pos + Len(bare) - 1) = bare
            /\ WordBoundary(w, pos)
            /\ WordBoundary(w, pos + Len(bare))
         THEN orig \o SubWholeWord(w, pos + Len(bare), bare, orig)
         ELSE At(w, pos) \o SubWholeWord(w, pos + 1, bare, orig)

\* the registered spellings of a lowercased term
Casings(lw) == {term \in MINECRAFT_TERMS : Lower(term) = lw}

\* s.replace("''", U+2019) if "''" in s else s  (line 306)
FixQuotes(str) == IF Contains(str, "''") THEN Replace(str, "''", Apostrophe) ELSE str

\* lines 309-314 on one word.  `for orig in MINECRAFT_TERMS' walks a set of
\* str, whose order changes with the interpreter's hash seed: first[lw] is
\* the spelling of lw that this process meets first.
FixWord(w, first) ==
    LET bare == StripNonWord(w)
        lw == Lower(bare)
    IN IF lw \in LOWER_TERMS THEN SubWholeWord(w, 1, bare, first[lw]) ELSE w

\* the str branch, lines 305-315
post_fix_str(str, first) ==
    LET words == Split(FixQuotes(str))
    IN Join([i \in 1..Len(words) |-> FixWord(words[i], first)])

RECURSIVE post_fix_translated_content(_, _)
post_fix_translated_content(obj, first) ==
    IF obj.kind = "str" THEN Str(post_fix_str(obj.sval, first))
    ELSE IF obj.kind = "map"
    THEN Map(obj.keys, [i \in 1..Len(obj.items) |->
                            post_fix_translated_content(obj.items[i], first)])
    ELSE IF obj.kind = "seq"
    THEN List([i \in 1..Len(obj.items) |->
                   post_fix_translated_content(obj.items[i], first)])
    ELSE obj

\* the lowercased terms line 310 finds in a string
TermWordsOfStr(str) ==
    LET words == Split(FixQuotes(str))
    IN {Lower(StripNonWord(words[i])) : i \in 1..Len(words)} \cap LOWER_TERMS

RECURSIVE TermWordsOf(_)
TermWordsOf(obj) ==
    IF obj.kind = "str" THEN TermWordsOfStr(obj.sval)
    ELSE IF IsContainer(obj)
    THEN UNION {TermWordsOf(obj.items[i]) : i \in 1..Len(obj.items)}
    ELSE {}

RECURSIVE IterationFirsts(_)
\* what the iteration order of MINECRAFT_TERMS can be for the terms in lws:
\* any registered spelling of a term may come before the others
IterationFirsts(lws) ==
    IF lws = {} THEN {<<>>}
    ELSE LET lw == CHOOSE x \in lws : TRUE
         IN {(lw :> term) @@ f : term \in Casings(lw), f \in IterationFirsts(lws \ {lw})}

-----------------------------------------------------------------------------
(* translate_value, lines 291-298 *)

\* position of path in the list of paths ps
IndexOf(ps, path) == CHOOSE i \in 1..Len(ps) : ps[i] = path

RECURSIVE translate_value(_, _, _, _)

\* a walk without its last line, `return val': a scalar that is no string
\* falls off the end of the function
translate_value_no_fallthrough(val, path, paths, results) ==
    IF val.kind = "str" THEN Str(results[IndexOf(paths, path)])
    ELSE IF val.kind = "map"
    THEN Map(val.keys, [i \in 1..Len(val.items) |->
                            translate_value(val.items[i], Append(path, i), paths, results)])
    ELSE IF val.kind = "seq"
    THEN List([i \in 1..Len(val.items) |->
                   translate_value(val.items[i], Append(path, i), paths, results)])
    ELSE Null

\* val sits at path; results[i] is what translate_string returned for the
\* string scalar at paths[i]
translate_value(val, path, paths, results) ==
    IF val.kind = "str" THEN Str(results[IndexOf(paths, path)])
    ELSE IF val.kind = "map"
    THEN Map(val.keys, [i \in 1..Len(val.items) |->
                            translate_value(val.items[i], Append(path, i), paths, results)])
    ELSE IF val.kind = "seq"
    THEN List([i \in 1..Len(val.items) |->
                   translate_value(val.items[i], Append(path, i), paths, results)])
    ELSE val

-----------------------------------------------------------------------------
(* final_sanity_check, lines 325-351 *)

\* a test that forgets the term tokens
HasSentinelPlaceholderOnly(x) == Contains(x, "__PH")

\* "__PH" in x or "__MT" in x  (line 333)
HasSentinel(x) == Contains(x, "__PH") \/ Contains(x, "__MT")

RECURSIVE walk(_, _), walkItems(_, _, _)
\* the entries walk(x, path) appends to problems
walk(x, path) ==
    IF x.kind = "null" THEN <<path \o " is None">>
    ELSE IF x.kind = "str"
    THEN IF HasSentinel(x.sval) THEN <<path \o " contiene token non sostituiti">> ELSE <<>>
    ELSE IF IsContainer(x) THEN walkItems(x, path, 1)
    ELSE <<>>

\* the loops of lines 337-338 and 341-342, from child i on
walkItems(x, path, i) ==
    IF i > Len(x.items) THEN <<>>
    ELSE LET child == IF x.kind = "map"
                      THEN path \o "." \o x.keys[i]
                      ELSE path \o "[" \o ToString(i - 1) \o "]"
         IN walk(x.items[i], child) \o walkItems(x, path, i + 1)

-----------------------------------------------------------------------------
(* main from FASE b on, lines 448-492, with translate_string (lines 262-288) *)
(* stepped through for each string scalar translate_value reaches.          *)
(* translate_one is taken by its outcome: it returns the engine's reply or  *)
(* it raises; with no engine it can only raise.                             *)

\* the scalars of the documents of the tree walk
TreeScalars == {Str("hi {x}"), Str("Land"), Str(" "), Num(7), Bool(TRUE), Null}

\* the scalars of the trees handed to final_sanity_check on their own
AuditScalars == {Str("ok"), Str("a __PH0__"), Str("__MT1__"), Num(7), Null}

\* what an engine may answer to masked: the text as it is, a word
\* translated, the tokens broken by inserted spaces, nothing
EngineReplies(m) == {m, Replace(m, "hi", "ciao"), Replace(m, "__", "_ _"), ""}

InitRun(docs) ==
    /\ data \in docs
    /\ leaves = StringLeafPaths(data, <<>>)
    /\ cursor = 1 /\ out = <<>> /\ outcome = <<>>
    /\ s = "" /\ smasked = "" /\ smapping = <<>> /\ sattempt = 0
    /\ last_result = "" /\ gatewayCalls = <<>>
    /\ PROGRESS = [translated |-> 0, skipped |-> 0]
    /\ translated = "None" /\ problems = <<>> /\ ok = TRUE
    /\ exitCode = -1 /\ pc = "walk"
    /\ engines \in EngineLists
    /\ GatewayIdle /\ MaskIdle

\* translate_string returns v: back in translate_value, on to the next scalar
Return(v, kind) ==
    /\ out' = Append(out, v)
    /\ outcome' = Append(outcome, kind)
    /\ cursor' = cursor + 1
    /\ pc' = "walk"

Count(counter) == [PROGRESS EXCEPT ![counter] = @ + 1]

\* lines 263-265
SkipBlank ==
    /\ pc = "walk" /\ cursor <= Len(leaves)
    /\ LET str == NodeAt(data, leaves[cursor]).sval
       IN /\ IsBlank(str)
          /\ s' = str
          /\ Return(str, "Skipped")
    /\ PROGRESS' = Count("skipped")
    /\ smasked' = "" /\ smapping' = <<>> /\ sattempt' = 0
    /\ last_result' = "" /\ gatewayCalls' = <<>>
    /\ UNCHANGED <<data, leaves, translated, problems, ok, exitCode, mvars, gvars>>

\* lines 267-268
Mask ==
    /\ pc = "walk" /\ cursor <= Len(leaves)
    /\ LET str == NodeAt(data, leaves[cursor]).sval
           r == mask_text(str, <<>>)
       IN /\ ~IsBlank(str)
          /\ s' = str
          /\ smasked' = r.text
          /\ smapping' = r.mapping
    /\ sattempt' = 0 /\ last_result' = "" /\ gatewayCalls' = <<>>
    /\ pc' = "masked"
    /\ UNCHANGED <<data, leaves, cursor, out, outcome, PROGRESS, translated,
                   problems, ok, exitCode, mvars, gvars>>

\* lines 271-273
SkipTokensOnly ==
    /\ pc = "masked" /\ FullMatchTokens(smasked)
    /\ PROGRESS' = Count("skipped")
    /\ Return(unmask_text(smasked, smapping), "Skipped")
    /\ UNCHANGED <<data, leaves, s, smasked, smapping, sattempt, last_result,
                   gatewayCalls, translated, problems, ok, exitCode, mvars, gvars>>

\* lines 275-276
BeginAttempts ==
    /\ pc = "masked" /\ ~FullMatchTokens(smasked)
    /\ last_result' = unmask_text(smasked, smapping)
    /\ sattempt' = 1
    /\ pc' = "call"
    /\ UNCHANGED <<data, leaves, cursor, out, outcome, s, smasked, smapping,
                   gatewayCalls, PROGRESS, translated, problems, ok, exitCode,
                   mvars, gvars>>

\* lines 278-281
TranslateOneReturns ==
    /\ pc = "call" /\ engines # <<>>
    /\ \E reply \in EngineReplies(smasked) :
          /\ gatewayCalls' = Append(gatewayCalls,
                                [masked |-> smasked, raised |-> FALSE, reply |-> reply])
          /\ Return(unmask_text(reply, smapping), "Translated")
    /\ PROGRESS' = Count("translated")
    /\ UNCHANGED <<data, leaves, s, smasked, smapping, sattempt, last_result,
                   translated, problems, ok, exitCode, mvars, gvars>>

\* lines 278, 282-285 and the next turn of the for loop of line 276
TranslateOneRaises ==
    /\ pc = "call"
    /\ gatewayCalls' = Append(gatewayCalls,
                          [masked |-> smasked, raised |-> TRUE, reply |-> ""])
    /\ last_result' = unmask_text(smasked, smapping)
    /\ sattempt' = sattempt + 1
    /\ pc' = IF sattempt < MAX_RETRIES THEN "call" ELSE "exhausted"
    /\ UNCHANGED <<data, leaves, cursor, out, outcome, s, smasked, smapping,
                   PROGRESS, translated, problems, ok, exitCode, mvars, gvars>>

\* lines 286-288
GiveUp ==
    /\ pc = "exhausted"
    /\ PROGRESS' = Count("skipped")
    /\ Return(last_result, "Skipped")
    /\ UNCHANGED <<data, leaves, s, smasked, smapping, sattempt, last_result,
                   gatewayCalls, translated, problems, ok, exitCode, mvars, gvars>>

\* line 452: translate_value has reached every scalar
FinishWalk ==
    /\ pc = "walk" /\ cursor > Len(leaves)
    /\ translated' = translate_value(data, <<>>, leaves, out)
    /\ pc' = "phase_c"
    /\ UNCHANGED <<data, leaves, cursor, out, outcome, s, smasked, smapping,
                   sattempt, last_result, gatewayCalls, PROGRESS, problems, ok,
                   exitCode, mvars, gvars>>

\* line 461
PostFix ==
    /\ pc = "phase_c"
    /\ \E first \in IterationFirsts(TermWordsOf(translated)) :
          translated' = post_fix_translated_content(translated, first)
    /\ pc' = "phase_e"
    /\ UNCHANGED <<data, leaves, cursor, out, outcome, s, smasked, smapping,
                   sattempt, last_result, gatewayCalls, PROGRESS, problems, ok,
                   exitCode, mvars, gvars>>

\* line 479
SanityCheck ==
    /\ pc = "phase_e"
    /\ problems' = walk(translated, "root")
    /\ ok' = (problems' = <<>>)
    /\ pc' = "save"
    /\ UNCHANGED <<data, leaves, cursor, out, outcome, s, smasked, smapping,
                   sattempt, last_result, gatewayCalls, PROGRESS, translated,
                   exitCode, mvars, gvars>>

\* lines 484-492: the output is written, or sys.exit(7)
Save ==
    /\ pc = "save"
    /\ exitCode' \in {0, 7}
    /\ pc' = "done"
    /\ UNCHANGED <<data, leaves, cursor, out, outcome, s, smasked, smapping,
                   sattempt, last_result, gatewayCalls, PROGRESS, translated,
                   problems, ok, mvars, gvars>>

NextRun ==
    \/ SkipBlank \/ Mask \/ SkipTokensOnly \/ BeginAttempts
    \/ TranslateOneReturns \/ TranslateOneRaises \/ GiveUp
    \/ FinishWalk \/ PostFix \/ SanityCheck \/ Save

\* one string scalar as the whole document
InitString == InitRun({Str(x) : x \in InputStrings})

SpecString == InitString /\ [][NextRun]_vars

\* a document of nested mappings and sequences
InitTree == InitRun(DocsOver(TreeScalars))

SpecTree == InitTree /\ [][NextRun]_vars

\* final_sanity_check on a crafted tree
InitAudit ==
    /\ translated \in DocsOver(AuditScalars)
    /\ data = translated      \* the argument as the caller holds it
    /\ leaves = <<>> /\ cursor = 0 /\ out = <<>>
    /\ s = "" /\ smasked = "" /\ smapping = <<>> /\ sattempt = 0
    /\ last_result = "" /\ gatewayCalls = <<>> /\ outcome = <<>>
    /\ PROGRESS = [translated |-> 0, skipped |-> 0]
    /\ problems = <<>> /\ ok = TRUE
    /\ exitCode = -1 /\ pc = "phase_e"
    /\ engines = <<>> /\ GatewayIdle /\ MaskIdle

NextAudit == SanityCheck \/ Save

SpecAudit == InitAudit /\ [][NextAudit]_vars

-----------------------------------------------------------------------------
(* Properties *)

\* the substrings PLACEHOLDER_RE finds in str from pos on
RECURSIVE PlaceholdersFrom(_, _)
PlaceholdersFrom(str, pos) ==
    IF pos > Len(str) THEN {}
    ELSE LET e == PlaceholderEnd(str, pos)
         IN IF e = 0 THEN PlaceholdersFrom(str, pos + 1)
            ELSE {SubSeq(str, pos, e)} \cup PlaceholdersFrom(str, e + 1)

\* term is in str between two word boundaries, spelled as given
ContainsWholeWord(str, term) ==
    \E i \in 1..Len(str) :
        /\ Slice(str, i, i + Len(term) - 1) = term
        /\ WordBoundary(str, i)
        /\ WordBoundary(str, i + Len(term))

\* the protected terms of str outside its placeholders, as spelled in str
TermsIn(str) ==
    LET m == mask_text(str, <<>>).mapping
    IN {m[i][2] : i \in {j \in 1..Len(m) : SubSeq(m[j][1], 1, 4) = "__MT"}}

RECURSIVE OnlySpansFrom(_, _)
\* from pos on, str holds only placeholders, whole-word protected terms and
\* whitespace
OnlySpansFrom(str, pos) ==
    IF pos > Len(str) THEN TRUE
    ELSE IF At(str, pos) \in SpaceSet THEN OnlySpansFrom(str, pos + 1)
    ELSE IF PlaceholderEnd(str, pos) # 0 THEN OnlySpansFrom(str, PlaceholderEnd(str, pos) + 1)
    ELSE IF TermEnd(str, pos) # 0 THEN OnlySpansFrom(str, TermEnd(str, pos) + 1)
    ELSE FALSE

\* str has no translatable content
NoContent(str) == OnlySpansFrom(str, 1)

\* every gateway call of the scalar failed or returned each token it was given
RepliesIntact ==
    \A i \in 1..Len(gatewayCalls) :
        \/ gatewayCalls[i].raised
        \/ \A k \in 1..Len(smapping) : Contains(gatewayCalls[i].reply, smapping[k][1])

\* every gateway call of the scalar failed, and there was one
AllCallsFailed ==
    /\ gatewayCalls # <<>>
    /\ \A i \in 1..Len(gatewayCalls) : gatewayCalls[i].raised

\* the run is past post_fix_translated_content
Repaired == pc \in {"phase_e", "save", "done"}

\* translate_string has returned for the only scalar of the document
Returned == Len(out) = 1 /\ leaves = <<<<>>>>

\* C1: mask_text on a fresh mapping followed by unmask_text gives back the
\* string it was given, for every string
C1_RoundTrip == mpc = "unmasked" => unmasked = text

\* C2: every placeholder of a string scalar is in the final output as it was
\* written, whether the gateway kept the tokens or failed
C2_PlaceholderFidelity ==
    (Repaired /\ Returned /\ RepliesIntact) =>
        \A ph \in PlaceholdersFrom(s, 1) : Contains(translated.sval, ph)

\* C3: when every gateway call fails, translate_string returns the original
\* string after max_retries attempts, with no token of the mapping in it, and
\* counts one Skipped and no Translated
C3_FailureDegradation ==
    (Returned /\ AllCallsFailed) =>
        /\ Len(gatewayCalls) = MAX_RETRIES
        /\ out[1] = s
        /\ \A k \in 1..Len(smapping) : ~Contains(out[1], smapping[k][1])
        /\ PROGRESS = [translated |-> 0, skipped |-> 1]

\* C4: once the timeout of an attempt has elapsed, translate_one is not
\* waiting on a worker whose engine call is still running
C4_NeverBlockedPastTimeout == timedOut => worker # "running"

RECURSIVE SameShape(_, _)
\* same node kind, same keys in the same order, same length, same value of
\* every scalar that is no string, at every path
SameShape(a, b) ==
    /\ a.kind = b.kind
    /\ IF a.kind = "map"
       THEN /\ a.keys = b.keys
            /\ Len(a.items) = Len(b.items)
            /\ \A i \in 1..Len(a.items) : SameShape(a.items[i], b.items[i])
       ELSE IF a.kind = "seq"
       THEN /\ Len(a.items) = Len(b.items)
            /\ \A i \in 1..Len(a.items) : SameShape(a.items[i], b.items[i])
       ELSE IF a.kind = "str" THEN TRUE
       ELSE a = b

\* C5: the tree translate_value returns, and the tree
\* post_fix_translated_content makes of it, have the shape of the input tree
C5_ShapePreserved ==
    pc \in {"phase_c", "phase_e", "save", "done"} => SameShape(data, translated)

C5_Witness ==
    /\ pc = "done"
    /\ data.kind = "map" /\ data.keys = <<"b", "a">>
    /\ data.items[1].kind = "str" /\ data.items[2].kind = "num"
    /\ outcome = <<"Translated">>
    /\ translated.items[1] # data.items[1]

\* C6: every protected term of a string scalar is in the final output as a
\* whole word in the casing the input had, whether the gateway kept the
\* tokens or failed
C6_TermFidelity ==
    (Repaired /\ Returned /\ RepliesIntact) =>
        \A term \in TermsIn(s) : ContainsWholeWord(translated.sval, term)

RECURSIVE NodePaths(_)
\* the paths of all nodes of a tree
NodePaths(node) ==
    {<<>>} \cup
    (IF IsContainer(node)
     THEN UNION {{<<i>> \o q : q \in NodePaths(node.items[i])} : i \in 1..Len(node.items)}
     ELSE {})

RECURSIVE PathName(_, _)
\* the name of the node at path under node: .key for a mapping entry, [idx]
\* for a sequence element
PathName(node, path) ==
    IF path = <<>> THEN ""
    ELSE LET i == Head(path)
             step == IF node.kind = "map" THEN "." \o node.keys[i]
                     ELSE "[" \o ToString(i - 1) \o "]"
         IN step \o PathName(node.items[i], Tail(path))

\* a null value, or a string with a token sentinel in it
IsProblem(node) ==
    \/ node.kind = "null"
    \/ node.kind = "str" /\ (Contains(node.sval, "__PH") \/ Contains(node.sval, "__MT"))

ProblemPaths(tree) == {q \in NodePaths(tree) : IsProblem(NodeAt(tree, q))}

\* q comes before r in the traversal
Before(q, r) ==
    \E k \in 1..Len(q) :
        /\ k <= Len(r)
        /\ q[k] < r[k]
        /\ \A j \in 1..(k - 1) : q[j] = r[j]

\* C7: final_sanity_check returns success exactly when it found no problem;
\* the problems are one entry per string with a sentinel and one per null,
\* named by path from root, in traversal order; the tree is left as it was
C7_LeakageDetection ==
    pc \in {"save", "done"} =>
        LET bad == ProblemPaths(translated)
        IN /\ translated = data
           /\ ok = (bad = {})
           /\ Len(problems) = Cardinality(bad)
           /\ \A q \in bad :
                 LET rank == 1 + Cardinality({r \in bad : Before(r, q)})
                     what == IF NodeAt(translated, q).kind = "null"
                             THEN " is None"
                             ELSE " contiene token non sostituiti"
                 IN /\ rank <= Len(problems)
                    /\ problems[rank] = "root" \o PathName(translated, q) \o what

C7_Witness ==
    /\ pc = "done"
    /\ ~ok
    /\ problems = <<"root.a[0] contiene token non sostituiti">>

\* sys.exit(4), line 455
ExitTranslationFailed == 4

\* a string scalar that translate_string hands to the gateway
Translatable(str) == ~IsBlank(str) /\ ~FullMatchTokens(mask_text(str, <<>>).text)

\* C8: with no engine available and a translatable string in the tree, the
\* run ends with the translation-phase failure
C8_NoEngineFatal ==
    (/\ pc = "done"
     /\ engines = <<>>
     /\ \E i \in 1..Len(leaves) : Translatable(NodeAt(data, leaves[i]).sval))
        => exitCode = ExitTranslationFailed

\* C9: a string with no translatable content, or a blank one, is returned
\* unchanged, counted as Skipped, and never handed to the gateway
C9_NoContentSkip ==
    (Returned /\ NoContent(s)) =>
        /\ gatewayCalls = <<>>
        /\ out[1] = s
        /\ outcome[1] = "Skipped"

RECURSIVE BackoffOfAttempt(_)
\* the wait after the k-th failed attempt on an engine
BackoffOfAttempt(k) ==
    IF k = 1 THEN InitialBackoff
    ELSE (BackoffOfAttempt(k - 1) * RetryBackoffNum) \div RetryBackoffDen

\* C10: attempts go engine by engine in the configured order, MAX_RETRIES
\* failed attempts on one before the first on the next; attempt numbers and
\* backoff start over on each engine and the backoff grows by RETRY_BACKOFF
\* after each failure; the first success ends the call with that engine's
\* result; an error is raised only after MAX_RETRIES attempts on every
\* engine, and is the last attempt's
C10_RetryFallbackOrder ==
    LET n == Len(calls)
    IN /\ \A i \in 1..n :
             LET k == ((i - 1) \div MAX_RETRIES) + 1
             IN /\ k <= Len(engines)
                /\ calls[i].engine = engines[k]
                /\ calls[i].attempt = ((i - 1) % MAX_RETRIES) + 1
                /\ i < n => calls[i].outcome # "returned"
                /\ calls[i].outcome # "returned" =>
                       calls[i].slept = BackoffOfAttempt(calls[i].attempt)
       /\ gpc = "returned" =>
             /\ n > 0
             /\ calls[n].outcome = "returned"
             /\ gresult.engine = calls[n].engine
             /\ gresult.attempt = calls[n].attempt
       /\ gpc = "raised" =>
             /\ n = MAX_RETRIES * Len(engines)
             /\ \A i \in 1..n : calls[i].outcome # "returned"
             /\ n > 0 => gresult = [type |-> calls[n].outcome,
                                    engine |-> calls[n].engine,
                                    attempt |-> calls[n].attempt]

C10_Witness ==
    /\ gpc = "returned"
    /\ Len(calls) = MAX_RETRIES + 2
    /\ gresult.engine = "deep-translator"
    /\ calls[2].outcome = "TimeoutError"

=============================================================================
